---- MODULE Spec2Model ----
(***************************************************************************)
(* Verification model of jaxoplanet's experimental starry module:         *)
(*   src/src/jaxoplanet/experimental/starry/ylm.py          (Ylm, _mul)    *)
(*   src/src/jaxoplanet/experimental/starry/light_curves.py (light curves) *)
(*                                                                         *)
(* The module holds several specifications over one set of variables:     *)
(*   SpecIndex  Ylm.index, called key by key as Ylm.tosparse does          *)
(*   SpecYlm    construction, from_dense, todense, scaling and product     *)
(*   SpecFlux   map_light_curve, one call after another                    *)
(*   SpecLC     light_curve, one time sample after another                 *)
(* Each specification leaves the variables of the others untouched.       *)
(***************************************************************************)
EXTENDS Integers, Sequences, FiniteSets, TLC

VARIABLES
    band,     \* SpecIndex: band-limit L of the expansion being indexed
    idx,      \* SpecIndex: indices computed so far by the tosparse pass
    call,     \* SpecIndex: the last direct call of Ylm.index and its outcome
    ylm,      \* SpecYlm: the Ylm instance at hand
    nops,     \* SpecYlm: operations applied to ylm since it was created
    origin,   \* SpecYlm: the vector ylm was made from by from_dense, else << >>
    last,     \* SpecYlm: the last operation, its operands and its outcome
    mlc,      \* SpecFlux: the last call of map_light_curve and its outcome
    sys,      \* SpecLC: the system whose light curve is computed
    step,     \* SpecLC: time samples evaluated so far
    row,      \* SpecLC: the last time sample, its positions and its outcome
    rtv,      \* SpecRT: the call of rT under way, its loop variables and list
    rot       \* SpecRot: the call of compute_rotation_matrices under way

idxVars == <<band, idx, call>>
ylmVars == <<ylm, nops, origin, last>>
fluxVars == <<mlc>>
lcVars == <<sys, step, row>>
rtVars == <<rtv>>
rotVars == <<rot>>
vars == <<band, idx, call, ylm, nops, origin, last, mlc, sys, step, row, rtv, rot>>

(***************************************************************************)
(* Bounds of the model.                                                    *)
(***************************************************************************)
MaxBand == 3

\* SpecYlm: highest degree of a created expansion, most keys of a mapping
\* handed to the constructor, operations applied to one created instance
MaxEll == 1

MaxKeys == 2

MaxOps == 1

\* SpecRT: highest degree lmax of a call of rT
MaxLmax == 12

\* SpecRot: highest degree deg of a call of compute_rotation_matrices
MaxDeg == 3

\* orbiting bodies of a system
MaxBodies == 2

\* time samples of one light curve
MaxTimes == 2

(***************************************************************************)
(* Integer helpers.                                                        *)
(***************************************************************************)
Abs(x) == IF x < 0 THEN -x ELSE x

Max2(a, b) == IF a >= b THEN a ELSE b

Min2(a, b) == IF a <= b THEN a ELSE b

(***************************************************************************)
(* Exact arithmetic.  The code computes in floating point; the model keeps *)
(* the exact real values the floats approximate, so that "equal to         *)
(* tolerance" becomes equality.                                            *)
(*                                                                         *)
(* A rational is a pair <<n, d>> with d > 0 and gcd(|n|, d) = 1.           *)
(***************************************************************************)
RECURSIVE GCD(_, _)
GCD(a, b) == IF b = 0 THEN a ELSE GCD(b, a % b)

RNorm(n, d) ==
    LET g == GCD(Abs(n), Abs(d))
        s == IF d < 0 THEN -1 ELSE 1
    IN  <<(s * n) \div g, (s * d) \div g>>

RZero == <<0, 1>>

ROne == <<1, 1>>

RInt(n) == <<n, 1>>

RMul(a, b) ==
    IF a[1] = 0 \/ b[1] = 0 THEN RZero
    ELSE LET g1 == GCD(Abs(a[1]), b[2])
             g2 == GCD(Abs(b[1]), a[2])
         IN  <<(a[1] \div g1) * (b[1] \div g2), (a[2] \div g2) * (b[2] \div g1)>>

RAdd(a, b) ==
    IF a[1] = 0 THEN b
    ELSE IF b[1] = 0 THEN a
    ELSE LET g == GCD(a[2], b[2])
         IN  RNorm(a[1] * (b[2] \div g) + b[1] * (a[2] \div g), (a[2] \div g) * b[2])

RNeg(a) == <<-a[1], a[2]>>

RInv(a) == RNorm(a[2], a[1])

RDiv(a, b) == RMul(a, RInv(b))

RECURSIVE Factorial(_)
Factorial(n) == IF n <= 1 THEN 1 ELSE n * Factorial(n - 1)

\* the largest s with s * s <= n: int(np.floor(np.sqrt(n))) for n >= 0
RECURSIVE ISqrtFrom(_, _)
ISqrtFrom(n, s) == IF (s + 1) * (s + 1) > n THEN s ELSE ISqrtFrom(n, s + 1)

ISqrt(n) == ISqrtFrom(n, 0)

\* the largest q with q * q dividing n (n >= 1)
RECURSIVE SquarePartFrom(_, _, _)
SquarePartFrom(n, q, best) ==
    IF q * q > n THEN best
    ELSE SquarePartFrom(n, q + 1, IF n % (q * q) = 0 THEN q ELSE best)

SquarePart(n) == SquarePartFrom(n, 1, 1)

(***************************************************************************)
(* A number of the code is a finite sum of terms c sqrt(d) / sqrt(4 pi)^k  *)
(* with c rational, d >= 1 square-free and k an integer: the values got    *)
(* from integer coefficients by sums, products, square roots of rationals and   *)
(* the factor 1 / sqrt(4 pi) of _mul.  It is kept as a function from the   *)
(* keys <<d, k>> to the non-zero coefficients c; distinct keys are         *)
(* linearly independent over the rationals, so two numbers are equal       *)
(* exactly when their functions are.                                       *)
(***************************************************************************)
NumZero == [key \in {} |-> RZero]

\* the function f with every value computed: TLC keeps [x \in S |-> e] as the
\* expression e and computes e again at every application
Explicit(f) == f @@ NumZero

NumGet(a, key) == IF key \in DOMAIN a THEN a[key] ELSE RZero

NumClean(a) == Explicit([key \in {k \in DOMAIN a : a[k][1] # 0} |-> a[key]])

NumMono(c, d, k) == IF c[1] = 0 THEN NumZero ELSE [key \in {<<d, k>>} |-> c]

NumOfInt(n) == NumMono(RInt(n), 1, 0)

NumAdd(a, b) ==
    IF a = NumZero THEN b
    ELSE IF b = NumZero THEN a
    ELSE NumClean([key \in (DOMAIN a) \cup (DOMAIN b) |->
                      RAdd(NumGet(a, key), NumGet(b, key))])

NumScale(a, c) ==
    IF a = NumZero \/ c[1] = 0 THEN NumZero
    ELSE Explicit([key \in DOMAIN a |-> RMul(a[key], c)])

NumNeg(a) == NumScale(a, RInt(-1))

\* sqrt(d1) * sqrt(d2) = g * sqrt(d1 * d2 / g^2) with g = gcd(d1, d2)
MonoMul(c1, key1, c2, key2) ==
    LET g == GCD(key1[1], key2[1])
    IN  NumMono(RMul(RMul(c1, c2), RInt(g)),
                (key1[1] \div g) * (key2[1] \div g), key1[2] + key2[2])

RECURSIVE NumSumOver(_, _)
NumSumOver(S, terms) ==
    IF S = {} THEN NumZero
    ELSE LET x == CHOOSE x \in S : TRUE
         IN  NumAdd(terms[x], NumSumOver(S \ {x}, terms))

NumMul(a, b) ==
    IF a = NumZero \/ b = NumZero THEN NumZero
    ELSE LET P == (DOMAIN a) \X (DOMAIN b)
         IN  NumSumOver(P, [p \in P |-> MonoMul(a[p[1]], p[1], b[p[2]], p[2])])

\* sqrt(n / d) / sqrt(4 pi)^k for integers n >= 0, d >= 1
NumSqrt(n, d, k) ==
    IF n = 0 THEN NumZero
    ELSE LET r == RNorm(n, d)
             x == r[1] * r[2]
             q == SquarePart(x)
         IN  NumMono(RNorm(q, r[2]), x \div (q * q), k)

\* math.pow(-1, n) for an integer n of either sign
PowMinusOne(n) == IF n % 2 = 0 THEN 1 ELSE -1

(***************************************************************************)
(* Ylm.index (ylm.py 45-52): raises ValueError when |m| > ell, otherwise   *)
(* returns ell * (ell + 1) + m.  Python integers do not overflow.          *)
(***************************************************************************)
index_wrong_bound(ell, m) ==
    IF Abs(m) >= ell
    THEN [status |-> "ValueError", value |-> 0]
    ELSE [status |-> "ok", value |-> ell * (ell + 1) + m]

index_wrong_formula(ell, m) ==
    IF Abs(m) > ell
    THEN [status |-> "ValueError", value |-> 0]
    ELSE [status |-> "ok", value |-> ell * ell + m]

index(ell, m) ==
    IF Abs(m) > ell
    THEN [status |-> "ValueError", value |-> 0]
    ELSE [status |-> "ok", value |-> ell * (ell + 1) + m]

(***************************************************************************)
(* Ylm.shape (ylm.py 35-39).                                               *)
(***************************************************************************)
shape(ell_max) == ell_max * ell_max + 2 * ell_max + 1

(***************************************************************************)
(* The keys (ell, m) of a full expansion of band-limit L in the order in   *)
(* which from_dense inserts them (ylm.py 65-68): ell ascending, then m     *)
(* ascending.  KeyAt(k) is the k-th key, k counted from 1.                 *)
(***************************************************************************)
RECURSIVE KeysUpTo(_)
KeysUpTo(L) ==
    IF L < 0 THEN <<>>
    ELSE KeysUpTo(L - 1) \o [j \in 1..(2 * L + 1) |-> <<L, j - L - 1>>]

(***************************************************************************)
(* Wigner 3-j symbols: the coupling table of Wigner3jCalculator, which is  *)
(* not among the sources.  The specification names it the standard table   *)
(* of Wigner 3-j symbols; it is computed here by Racah's formula           *)
(*   (j1 j2 j3; m1 m2 m3) = (-1)^(j1-j2-m3) sqrt(Delta * F) * S.           *)
(***************************************************************************)
RECURSIVE RSumOver(_, _)
RSumOver(S, terms) ==
    IF S = {} THEN RZero
    ELSE LET x == CHOOSE x \in S : TRUE
         IN  RAdd(terms[x], RSumOver(S \ {x}, terms))

W3jAllowed(j1, j2, j3, m1, m2, m3) ==
    /\ m1 + m2 + m3 = 0
    /\ Abs(j1 - j2) <= j3
    /\ j3 <= j1 + j2
    /\ Abs(m1) <= j1
    /\ Abs(m2) <= j2
    /\ Abs(m3) <= j3

\* Delta = (j1+j2-j3)! (j1-j2+j3)! (-j1+j2+j3)! / (j1+j2+j3+1)!
W3jDelta(j1, j2, j3) ==
    RNorm(Factorial(j1 + j2 - j3) * Factorial(j1 - j2 + j3) * Factorial(j2 + j3 - j1),
          Factorial(j1 + j2 + j3 + 1))

\* F = (j1+m1)! (j1-m1)! (j2+m2)! (j2-m2)! (j3+m3)! (j3-m3)!
W3jF(j1, j2, j3, m1, m2, m3) ==
    Factorial(j1 + m1) * Factorial(j1 - m1) * Factorial(j2 + m2)
        * Factorial(j2 - m2) * Factorial(j3 + m3) * Factorial(j3 - m3)

\* S = sum over k of (-1)^k / (k! (j1+j2-j3-k)! (j1-m1-k)! (j2+m2-k)!
\*                           (j3-j2+m1+k)! (j3-j1-m2+k)!)
\* over the k for which no factorial has a negative argument
W3jRacahSum(j1, j2, j3, m1, m2) ==
    LET lo == Max2(0, Max2(j2 - j3 - m1, j1 - j3 + m2))
        hi == Min2(j1 + j2 - j3, Min2(j1 - m1, j2 + m2))
    IN  RSumOver(lo..hi,
                 [k \in lo..hi |->
                     <<PowMinusOne(k),
                       Factorial(k) * Factorial(j1 + j2 - j3 - k) * Factorial(j1 - m1 - k)
                           * Factorial(j2 + m2 - k) * Factorial(j3 - j2 + m1 + k)
                           * Factorial(j3 - j1 - m2 + k)>>])

W3j(j1, j2, j3, m1, m2, m3) ==
    IF ~W3jAllowed(j1, j2, j3, m1, m2, m3) THEN NumZero
    ELSE LET df == RMul(W3jDelta(j1, j2, j3), RInt(W3jF(j1, j2, j3, m1, m2, m3)))
         IN  NumScale(NumSqrt(df[1], df[2], 0),
                      RMul(RInt(PowMinusOne(j1 - j2 - m3)),
                           W3jRacahSum(j1, j2, j3, m1, m2)))

\* the symbols (ell1 ell2 ell3; m1 m2 -(m1+m2)) for the degrees of created
\* expansions, computed once
W3jTable ==
    Explicit([q \in {q \in (0..MaxEll) \X (0..MaxEll) \X (0..(2 * MaxEll))
                           \X (-MaxEll..MaxEll) \X (-MaxEll..MaxEll) :
                         W3jAllowed(q[1], q[2], q[3], q[4], q[5], -(q[4] + q[5]))}
                 |-> W3j(q[1], q[2], q[3], q[4], q[5], -(q[4] + q[5]))])

\* m_calculator.calculate(ell1, ell2, m1, m2)[ell3]: the symbol
\* (ell1 ell2 ell3; m1 m2 -(m1+m2))
calculate(ell1, ell2, m1, m2, ell3) ==
    IF <<ell1, ell2, ell3, m1, m2>> \in DOMAIN W3jTable
    THEN W3jTable[<<ell1, ell2, ell3, m1, m2>>]
    ELSE W3j(ell1, ell2, ell3, m1, m2, -(m1 + m2))

(***************************************************************************)
(* Ylm (ylm.py 17-33).  An instance is a record of its three fields; data  *)
(* is a function from keys <<ell, m>> to coefficients.  The constructor    *)
(* does not look at the keys beyond taking the maximum degree; max() of an *)
(* empty mapping raises ValueError.                                        *)
(***************************************************************************)
SetMax(S) == CHOOSE x \in S : \A y \in S : y <= x

EmptyDict == [key \in {} |-> NumZero]

NoYlm == [data |-> EmptyDict, ell_max |-> -1, diagonal |-> TRUE]

Failure == [status |-> "ValueError", y |-> NoYlm]

NoOp == [op |-> "none", f |-> NoYlm, g |-> NoYlm, status |-> "ok", out |-> <<>>]

\* the SpecYlm variables while another specification runs
IdleYlm ==
    /\ ylm = NoYlm
    /\ nops = 0
    /\ origin = <<>>
    /\ last = NoOp

Ylm_init_no_max(data) ==
    IF DOMAIN data = {} THEN Failure
    ELSE [status |-> "ok",
          y |-> [data |-> data,
                 ell_max |-> (CHOOSE k \in DOMAIN data : TRUE)[1],
                 diagonal |-> \A k \in DOMAIN data : k[2] = 0]]

Ylm_init(data) ==
    IF DOMAIN data = {} THEN Failure
    ELSE [status |-> "ok",
          y |-> [data |-> data,
                 ell_max |-> SetMax({k[1] : k \in DOMAIN data}),
                 diagonal |-> \A k \in DOMAIN data : k[2] = 0]]

\* d[key] = value
DictSet(d, key, value) == (key :> value) @@ d

(***************************************************************************)
(* Ylm.from_dense (ylm.py 62-69); i is the 0-based position in y.          *)
(***************************************************************************)
from_dense_key_wrong(i) ==
    LET ell == ISqrt(i) IN <<ell, i - ell * ell>>

from_dense_key(i) ==
    LET ell == ISqrt(i) IN <<ell, i - ell * (ell + 1)>>

RECURSIVE from_dense_loop(_, _, _)
from_dense_loop(yv, i, data) ==
    IF i >= Len(yv) THEN data
    ELSE from_dense_loop(yv, i + 1, DictSet(data, from_dense_key(i), yv[i + 1]))

from_dense(yv) == Ylm_init(from_dense_loop(yv, 0, EmptyDict))

(***************************************************************************)
(* Ylm.tosparse / Ylm.todense (ylm.py 54-60): index raises for a key with  *)
(* |m| > ell; the dense vector has shape entries, zero-filled, and every   *)
(* stored coefficient is added at its index.                               *)
(***************************************************************************)
todense(y) ==
    IF \E k \in DOMAIN y.data : index(k[1], k[2]).status # "ok"
    THEN [status |-> "ValueError", dense |-> <<>>]
    ELSE [status |-> "ok",
          dense |-> [i \in 1..shape(y.ell_max) |->
                        NumSumOver({k \in DOMAIN y.data :
                                        index(k[1], k[2]).value = i - 1}, y.data)]]

(***************************************************************************)
(* Scalar multiplication (ylm.py 75, 79): tree_map over the coefficients;  *)
(* ell_max and diagonal are static fields and are carried over.            *)
(***************************************************************************)
scale(y, c) ==
    [data |-> [k \in DOMAIN y.data |-> NumScale(y.data[k], RInt(c))],
     ell_max |-> y.ell_max, diagonal |-> y.diagonal]

(***************************************************************************)
(* _mul (ylm.py 86-128): five nested loops; fg is a defaultdict with       *)
(* default 0.0 and every contribution is added to fg[(ell3, m3)].          *)
(***************************************************************************)
accumulate_overwrite(fg, key, t) == DictSet(fg, key, t)

\* fg[key] += t
accumulate(fg, key, t) ==
    DictSet(fg, key, NumAdd(IF key \in DOMAIN fg THEN fg[key] ELSE NumZero, t))

\* the value added at ylm.py 119-127
mul_term(f, g, ell1, m1, ell2, m2, ell3) ==
    LET sqrt1 == NumSqrt(2 * ell1 + 1, 1, 1)
        sum1 == NumMul(sqrt1, f.data[<<ell1, m1>>])
        sqrt2 == NumSqrt(2 * ell2 + 1, 1, 0)
        sum2 == NumMul(sqrt2, g.data[<<ell2, m2>>])
        w3j_m_ell3 == calculate(ell1, ell2, m1, m2, ell3)
        m3 == m1 + m2
    IN  NumMul(NumMul(NumScale(NumMul(NumSqrt(2 * ell3 + 1, 1, 0), w3j_m_ell3),
                               RInt(PowMinusOne(ell1 + ell2 + ell3 + m3))),
                      sum1),
               sum2)

ell3_first(ell1, m1, ell2, m2) == Max2(Abs(m1 + m2), Abs(ell1 - ell2))

\* the last value of range(.., min(ell1 + ell2, ellmax_fg) + 1)
ell3_last(f, g, ell1, ell2) == Min2(ell1 + ell2, f.ell_max + g.ell_max)

\* TRUE, and d is computed.  TLC computes the argument of an operator at its
\* first use; a loop that asks this of its dictionary on entry carries the
\* dictionary from iteration to iteration, as the code does, and not the
\* updates still to be made.
Computed(d) == DOMAIN d = DOMAIN d

RECURSIVE mul_loop_ell3(_, _, _, _, _, _, _, _)
mul_loop_ell3(fg, f, g, ell1, m1, ell2, m2, ell3) ==
    IF Computed(fg) /\ ell3 <= ell3_last(f, g, ell1, ell2)
    THEN mul_loop_ell3(accumulate(fg, <<ell3, m1 + m2>>,
                                  mul_term(f, g, ell1, m1, ell2, m2, ell3)),
                       f, g, ell1, m1, ell2, m2, ell3 + 1)
    ELSE fg

RECURSIVE mul_loop_m2(_, _, _, _, _, _, _)
mul_loop_m2(fg, f, g, ell1, m1, ell2, m2) ==
    IF Computed(fg) /\ m2 <= ell2
    THEN mul_loop_m2(IF <<ell2, m2>> \notin DOMAIN g.data THEN fg
                     ELSE mul_loop_ell3(fg, f, g, ell1, m1, ell2, m2,
                                        ell3_first(ell1, m1, ell2, m2)),
                     f, g, ell1, m1, ell2, m2 + 1)
    ELSE fg

RECURSIVE mul_loop_ell2(_, _, _, _, _, _)
mul_loop_ell2(fg, f, g, ell1, m1, ell2) ==
    IF Computed(fg) /\ ell2 <= g.ell_max
    THEN mul_loop_ell2(mul_loop_m2(fg, f, g, ell1, m1, ell2, -ell2),
                       f, g, ell1, m1, ell2 + 1)
    ELSE fg

RECURSIVE mul_loop_m1(_, _, _, _, _)
mul_loop_m1(fg, f, g, ell1, m1) ==
    IF Computed(fg) /\ m1 <= ell1
    THEN mul_loop_m1(IF <<ell1, m1>> \notin DOMAIN f.data THEN fg
                     ELSE mul_loop_ell2(fg, f, g, ell1, m1, 0),
                     f, g, ell1, m1 + 1)
    ELSE fg

RECURSIVE mul_loop_ell1(_, _, _, _)
mul_loop_ell1(fg, f, g, ell1) ==
    IF Computed(fg) /\ ell1 <= f.ell_max
    THEN mul_loop_ell1(mul_loop_m1(fg, f, g, ell1, -ell1), f, g, ell1 + 1)
    ELSE fg

mul(f, g) == Ylm_init(mul_loop_ell1(EmptyDict, f, g, 0))

(***************************************************************************)
(* Light curves (light_curves.py).  pi is the number (1/4) sqrt(4 pi)^2,   *)
(* that is the key <<1, -2>> with coefficient 1/4.                         *)
(***************************************************************************)
Pi == NumMono(<<1, 4>>, 1, -2)

\* 1 / a for a number a = c sqrt(d) / sqrt(4 pi)^k of one term
NumInvMono(a) ==
    LET key == CHOOSE key \in DOMAIN a : TRUE
    IN  NumMono(RInv(RMul(a[key], RInt(key[1]))), key[1], -key[2])

\* a <= b for rationals
RLeq(a, b) == a[1] * b[2] <= b[1] * a[2]

\* the dot product of two vectors of numbers of the same length
NumDot(p, x) == NumSumOver(1..Len(p), [i \in 1..Len(p) |-> NumMul(p[i], x[i])])

(***************************************************************************)
(* rT (light_curves.py 158-195).  The entries are kept as rational         *)
(* multiples of pi while the two degree loops run and are turned into      *)
(* numbers at the end.  first tells the two loops apart: the loop over     *)
(* ell = 0, 4, 8, ... with m = 0, 4, ... (163-176) and the loop over       *)
(* ell = 2, 6, ... with m = 2, 6, ... (181-194).                           *)
(***************************************************************************)
\* the indices with the mirrored entries ell^2 + ell - m written at
\* ell^2 + ell + m
rT_indices_one_sided(lmax, ell, m) ==
    IF ell < lmax
    THEN <<ell * ell + ell + m, ell * ell + ell + m,
           (ell + 1) * (ell + 1) + ell + m + 1, (ell + 1) * (ell + 1) + ell + m + 1>>
    ELSE <<ell * ell + ell + m, ell * ell + ell + m>>

\* the indices assigned in one pass of the loop over m, in the order of the
\* four assignments (light_curves.py 168-172, 186-190)
rT_indices(lmax, ell, m) ==
    IF ell < lmax
    THEN <<ell * ell + ell + m, ell * ell + ell - m,
           (ell + 1) * (ell + 1) + ell + m + 1, (ell + 1) * (ell + 1) + ell - m + 1>>
    ELSE <<ell * ell + ell + m, ell * ell + ell - m>>

\* the values assigned at these indices
rT_values(amp, lfac1, lfac2) ==
    <<RMul(amp, lfac1), RMul(amp, lfac1), RMul(amp, lfac2), RMul(amp, lfac2)>>

\* rt after rt[is[k]] = vs[k] for k = 1..Len(is), every index being in the list
RECURSIVE ListAssign(_, _, _, _)
ListAssign(rt, is, vs, k) ==
    IF k > Len(is) THEN rt
    ELSE ListAssign([rt EXCEPT ![(IF is[k] < 0 THEN is[k] + Len(rt) ELSE is[k]) + 1] = vs[k]],
                    is, vs, k + 1)

RECURSIVE rT_m_loop(_, _, _, _, _, _, _)
rT_m_loop(rt, lmax, ell, m, amp, lfac1, lfac2) ==
    IF m > ell THEN rt
    ELSE LET mu == ell - m
             nu == ell + m
         IN  rT_m_loop(ListAssign(rt, rT_indices(lmax, ell, m),
                                  rT_values(amp, lfac1, lfac2), 1),
                       lmax, ell, m + 4, RMul(amp, RNorm(nu + 2, mu - 2)),
                       lfac1, lfac2)

RECURSIVE rT_ell_loop(_, _, _, _, _, _, _)
rT_ell_loop(rt, lmax, ell, amp0, lfac1, lfac2, first) ==
    IF ell > lmax THEN rt
    ELSE rT_ell_loop(
            rT_m_loop(rt, lmax, ell, IF first THEN 0 ELSE 2, amp0, lfac1, lfac2),
            lmax, ell + 4,
            RMul(amp0, IF first THEN RNorm((ell + 2) * (ell + 2), 16)
                                ELSE RNorm(ell * (ell + 4), 16)),
            RDiv(lfac1, RNorm((ell + 4) * (ell + 6), 4)),
            RDiv(lfac2, RNorm((ell + 5) * (ell + 7), 4)),
            first)

rT(lmax) ==
    LET zeros == [i \in 1..((lmax + 1) * (lmax + 1)) |-> RZero]
        even == rT_ell_loop(zeros, lmax, 0, ROne, ROne, <<2, 3>>, TRUE)
        odd == rT_ell_loop(even, lmax, 2, <<1, 2>>, <<1, 2>>, <<4, 15>>, FALSE)
    IN  Explicit([i \in 1..((lmax + 1) * (lmax + 1)) |-> NumScale(Pi, odd[i])])

(***************************************************************************)
(* A surface map is a record: y the Ylm expansion (has_y FALSE when map.y  *)
(* is None), ydeg and udeg its degrees, u the limb-darkening coefficients  *)
(* and amplitude.  The maps of this model have inc = pi / 2 and obl = 0,   *)
(* the defaults of Surface.                                                *)
(***************************************************************************)
map_deg(map) == map.ydeg + map.udeg

(***************************************************************************)
(* An occultor is a record given, r, xo, yo, zo; given is FALSE for the    *)
(* call with r = None.  r, xo, yo and zo are rationals.                    *)
(***************************************************************************)
NoOccultor == [given |-> FALSE, r |-> RZero, xo |-> RZero, yo |-> RZero, zo |-> RZero]

\* jnp.square(xo) + jnp.square(yo), the square of b (light_curves.py 122)
b_squared(xo, yo) == RAdd(RMul(xo, xo), RMul(yo, yo))

\* b > 1 + r
greater(b2, r) ==
    LET s == RAdd(ROne, r)
    IN  IF s[1] < 0 THEN TRUE ELSE ~RLeq(b2, RMul(s, s))

\* jnp.greater_equal(b, 1.0 + r) with b = sqrt(b2) >= 0 (light_curves.py 123)
greater_equal(b2, r) ==
    LET s == RAdd(ROne, r)
    IN  IF s[1] <= 0 THEN TRUE ELSE RLeq(RMul(s, s), b2)

\* jnp.less_equal(zo, 0.0) (light_curves.py 123)
less_equal_zero(zo) == zo[1] <= 0

\* an angle is kept as its cosine and sine
Angle(c, s) == [cos |-> c, sin |-> s]

AngleZero == Angle(NumOfInt(1), NumZero)

\* -0.0, the negative zero of float arithmetic; every other float is a
\* rational and RZero is +0.0
NegZero == <<0, -1>>

\* -x on floats (light_curves.py 74): the sign of a zero changes too
FloatNeg(a) ==
    IF a = RZero THEN NegZero
    ELSE IF a = NegZero THEN RZero
    ELSE RNeg(a)

\* x / d on floats for d > 0 (light_curves.py 34-36): a zero keeps its sign
FloatDiv(a, d) == IF a[1] = 0 THEN a ELSE RDiv(a, d)

\* jnp.arctan2(xo, yo): the angle with sine xo / b and cosine yo / b.  When
\* both are zero the angle is 0 for yo = +0.0 and pi or -pi (cosine -1) for
\* yo = -0.0 (light_curves.py 125)
arctan2(xo, yo) ==
    LET b2 == b_squared(xo, yo)
    IN  IF b2[1] = 0
        THEN IF yo = NegZero THEN Angle(NumOfInt(-1), NumZero) ELSE AngleZero
        ELSE LET invb == NumSqrt(b2[2], b2[1], 0)
             IN  Angle(NumScale(invb, yo), NumScale(invb, xo))

(***************************************************************************)
(* Collaborators that are not in src/ (Pijk, A1, U0, left_project),        *)
(* modelled from the specification for ydeg <= 2.                          *)
(*                                                                         *)
(* Pijk: a polynomial in x, y, z on the unit sphere is the vector of its   *)
(* coefficients in the polynomial basis.  The term n, of degree            *)
(* l = floor(sqrt(n)) and order m = n - l^2 - l, is x^(mu/2) y^(nu/2) for  *)
(* nu = l + m even and mu = l - m, and x^((mu-1)/2) y^((nu-1)/2) z for nu  *)
(* odd: 1, x, z, y, x^2, xz, xy, yz, y^2, ...  A polynomial of degree d    *)
(* has (d + 1)^2 coefficients; z^2 is 1 - x^2 - y^2.                       *)
(***************************************************************************)
\* the exponents <<i, j, k>> of x, y, z in the term n (from 0): with
\* l = floor(sqrt(n)), mu = 2 l + l^2 - n and nu = n - l^2, the halves of mu
\* and nu rounded down, and k = 1 when nu is odd
PolyTerm(n) ==
    LET l == ISqrt(n)
    IN  <<(2 * l + l * l - n) \div 2, (n - l * l) \div 2, (n - l * l) % 2>>

\* the term (from 0) with the exponents i, j, k
PolyIndex(i, j, k) == (i + j + k) * (i + j + k) + (i + j + k) + j - i

\* the product of the terms of exponents e and f: the terms it is made of,
\* with their signs
PolyTimes(e, f) ==
    IF e[3] + f[3] < 2
    THEN {<<PolyIndex(e[1] + f[1], e[2] + f[2], e[3] + f[3]), 1>>}
    ELSE {<<PolyIndex(e[1] + f[1], e[2] + f[2], 0), 1>>,
          <<PolyIndex(e[1] + f[1] + 2, e[2] + f[2], 0), -1>>,
          <<PolyIndex(e[1] + f[1], e[2] + f[2] + 2, 0), -1>>}

PolySupport(p) == {a \in 1..Len(p) : p[a] # NumZero}

\* p as a polynomial of degree deg
PolyPad(p, deg) ==
    Explicit([n \in 1..((deg + 1) * (deg + 1)) |-> IF n <= Len(p) THEN p[n] ELSE NumZero])

\* the product of two polynomials, of degree the sum of their degrees
Pijk_mul(p, q) ==
    LET terms == UNION {{<<ab[1], ab[2], c[1], c[2]>> :
                            c \in PolyTimes(PolyTerm(ab[1] - 1), PolyTerm(ab[2] - 1))} :
                           ab \in PolySupport(p) \X PolySupport(q)}
    IN  Explicit([n \in 1..((ISqrt(Len(p)) + ISqrt(Len(q)) - 1)
                                * (ISqrt(Len(p)) + ISqrt(Len(q)) - 1)) |->
                     NumSumOver({t \in terms : t[3] = n - 1},
                                [t \in terms |->
                                    NumScale(NumMul(p[t[1]], q[t[2]]), RInt(t[4]))])])

RECURSIVE PolyProduct(_, _)
PolyProduct(fs, t) ==
    IF t > Len(fs) THEN <<NumOfInt(1)>>
    ELSE IF t = Len(fs) THEN fs[t]
    ELSE Pijk_mul(fs[t], PolyProduct(fs, t + 1))

\* the term of exponents e with x, y, z replaced by the polynomials forms[1..3]
PolyImage(e, forms) ==
    PolyProduct([t \in 1..(e[1] + e[2] + e[3]) |->
                    IF t <= e[1] THEN forms[1]
                    ELSE IF t <= e[1] + e[2] THEN forms[2]
                    ELSE forms[3]], 1)

\* p with x, y, z replaced by the polynomials of degree 1 forms[1..3]
PolySubst(p, forms) ==
    LET images == Explicit([n \in PolySupport(p) |->
                               PolyPad(PolyImage(PolyTerm(n - 1), forms), ISqrt(Len(p)) - 1)])
    IN  Explicit([m \in 1..Len(p) |->
                     NumSumOver(PolySupport(p),
                                [n \in PolySupport(p) |-> NumMul(p[n], images[n][m])])])

\* the product of a sparse matrix with the vector v, scaled by c; the matrix is
\* a sequence of rows, a row is a function from the column to the entry
MatVec(rows, v, c) ==
    Explicit([n \in 1..Len(v) |->
                 NumMul(c, NumSumOver({k \in DOMAIN rows[n] : k <= Len(v)},
                                      [k \in DOMAIN rows[n] |-> NumMul(rows[n][k], v[k])]))])

(***************************************************************************)
(* A1(ydeg): the real spherical harmonics as polynomials, normalised so    *)
(* that Y(0,0) is 1 / pi.  Times pi, in the order of the coefficients:     *)
(*   1;  sqrt3 y, sqrt3 z, sqrt3 x;                                        *)
(*   sqrt15 xy, sqrt15 yz, (sqrt5 / 2)(2 - 3 x^2 - 3 y^2), sqrt15 xz,      *)
(*   (sqrt15 / 2)(x^2 - y^2).                                              *)
(* Row n of A1Rows holds the coefficients of the term n of the polynomial  *)
(* basis, row k of A1InvRows the coefficient k of the expansion.           *)
(***************************************************************************)
A1Rows ==
    <<(1 :> NumOfInt(1)) @@ (7 :> NumSqrt(5, 1, 0)),
      (4 :> NumSqrt(3, 1, 0)),
      (3 :> NumSqrt(3, 1, 0)),
      (2 :> NumSqrt(3, 1, 0)),
      (7 :> NumNeg(NumSqrt(45, 4, 0))) @@ (9 :> NumSqrt(15, 4, 0)),
      (8 :> NumSqrt(15, 1, 0)),
      (5 :> NumSqrt(15, 1, 0)),
      (6 :> NumSqrt(15, 1, 0)),
      (7 :> NumNeg(NumSqrt(45, 4, 0))) @@ (9 :> NumNeg(NumSqrt(15, 4, 0)))>>

A1InvRows ==
    <<(1 :> NumOfInt(1)) @@ (5 :> NumSqrt(1, 9, 0)) @@ (9 :> NumSqrt(1, 9, 0)),
      (4 :> NumSqrt(1, 3, 0)),
      (3 :> NumSqrt(1, 3, 0)),
      (2 :> NumSqrt(1, 3, 0)),
      (7 :> NumSqrt(1, 15, 0)),
      (8 :> NumSqrt(1, 15, 0)),
      (5 :> NumNeg(NumSqrt(1, 45, 0))) @@ (9 :> NumNeg(NumSqrt(1, 45, 0))),
      (6 :> NumSqrt(1, 15, 0)),
      (5 :> NumSqrt(1, 15, 0)) @@ (9 :> NumNeg(NumSqrt(1, 15, 0)))>>

\* A1(ydeg) @ y: the polynomial of the expansion y
A1(ydeg, y) == MatVec(A1Rows, y, NumInvMono(Pi))

\* the expansion of the polynomial p of degree ydeg
A1Inv(ydeg, p) == MatVec(A1InvRows, p, Pi)

(***************************************************************************)
(* left_project rotates the map by theta about the polar axis (the y axis  *)
(* of the sky frame for inc = pi / 2, obl = 0) and then by theta_z about   *)
(* the line of sight z.  A rotation R takes the function f to f o R^T: the *)
(* polynomial of the expansion with x, y, z replaced by the columns of R.  *)
(* An angle is kept as its cosine and sine.                                *)
(***************************************************************************)
\* the columns of the rotation by theta about the y axis, as polynomials
polar_forms(theta) ==
    <<(<<NumZero, theta.cos, NumNeg(theta.sin), NumZero>>),
      <<NumZero, NumZero, NumZero, NumOfInt(1)>>,
      <<NumZero, theta.sin, theta.cos, NumZero>>>>

\* the columns of the rotation by theta_z about the z axis, as polynomials
z_forms(theta_z) ==
    <<(<<NumZero, theta_z.cos, NumZero, theta_z.sin>>),
      <<NumZero, NumNeg(theta_z.sin), NumZero, theta_z.cos>>,
      <<NumZero, NumZero, NumOfInt(1), NumZero>>>>

left_project(ydeg, theta, theta_z, y) ==
    A1Inv(ydeg, PolySubst(PolySubst(A1(ydeg, y), polar_forms(theta)), z_forms(theta_z)))

(***************************************************************************)
(* U0(udeg): row 0 is the polynomial 1 and row n >= 1 the polynomial       *)
(* -(1 - z)^n, so that [1, u1, u2, ...] @ U0 is the limb-darkening law     *)
(* 1 - u1 (1 - z) - u2 (1 - z)^2 - ..., with leading coefficient 1.        *)
(***************************************************************************)
\* -(1 - z)^n
RECURSIVE MinusOneMinusZPower(_)
MinusOneMinusZPower(n) ==
    IF n = 1 THEN <<NumOfInt(-1), NumZero, NumOfInt(1), NumZero>>
    ELSE Pijk_mul(<<NumOfInt(1), NumZero, NumOfInt(-1), NumZero>>, MinusOneMinusZPower(n - 1))

U0(udeg) ==
    Explicit([n \in 1..(udeg + 1) |->
                 PolyPad(IF n = 1 THEN <<NumOfInt(1)>> ELSE MinusOneMinusZPower(n - 1), udeg)])

\* U @ M for a vector U and a matrix M given by its rows
VecMat(U, M) ==
    Explicit([m \in 1..Len(M[1]) |->
                 NumSumOver(1..Len(U), [n \in 1..Len(U) |-> NumMul(U[n], M[n][m])])])

(***************************************************************************)
(* A flux is the sum of a number and of occulted terms: solution_vector    *)
(* is not in src/, so the flux with x = sT @ A2 is kept as a term named    *)
(* by the inputs that decide it, with a rational coefficient.              *)
(***************************************************************************)
NoTerms == [a \in {} |-> RZero]

FluxZero == [num |-> NumZero, occ |-> NoTerms]

FluxNum(v) == [num |-> v, occ |-> NoTerms]

FluxOcc(atom) == [num |-> NumZero, occ |-> [a \in {atom} |-> ROne]]

TermGet(t, a) == IF a \in DOMAIN t THEN t[a] ELSE RZero

TermClean(t) == Explicit([a \in {k \in DOMAIN t : t[k][1] # 0} |-> t[a]])

FluxAdd(f, g) ==
    [num |-> NumAdd(f.num, g.num),
     occ |-> TermClean([a \in (DOMAIN f.occ) \cup (DOMAIN g.occ) |->
                            RAdd(TermGet(f.occ, a), TermGet(g.occ, a))])]

FluxScale(f, c) ==
    [num |-> NumScale(f.num, c),
     occ |-> TermClean([a \in DOMAIN f.occ |-> RMul(f.occ[a], c)])]

FluxSub(f, g) == FluxAdd(f, FluxScale(g, RInt(-1)))

(***************************************************************************)
(* map_light_curve (light_curves.py 86-155).  The result records the       *)
(* status, the flux basis vector x that was selected, theta_z and the      *)
(* flux.  x is rT(deg) (kind "rT") or sT(b, r) @ A2 (kind "sT_A2").        *)
(* With map.y None the rotated coefficients are jnp.zeros(map.ydeg), a     *)
(* vector of length ydeg (140); A1(ydeg) has (ydeg + 1)^2 columns, so the  *)
(* product A1 @ rotated_y (149) raises.                                    *)
(***************************************************************************)
select_x(map, occ) ==
    IF ~occ.given THEN [kind |-> "rT", vec |-> rT(map_deg(map))]
    ELSE LET b2 == b_squared(occ.xo, occ.yo)
             b_rot == greater_equal(b2, occ.r) \/ less_equal_zero(occ.zo)
             b_occ == ~b_rot
         IN  IF b_occ THEN [kind |-> "sT_A2", vec |-> <<>>]
                      ELSE [kind |-> "rT", vec |-> rT(map_deg(map))]

select_theta_z(occ) == IF ~occ.given THEN AngleZero ELSE arctan2(occ.xo, occ.yo)

\* left_project(...) of map.y.todense(), or jnp.zeros(map.ydeg) when map.y is
\* None (light_curves.py 139-144)
rotate_y(map, theta, theta_z) ==
    IF map.has_y
    THEN left_project(map.ydeg, theta, theta_z, todense(map.y).dense)
    ELSE [i \in 1..map.ydeg |-> NumZero]

\* (p_y.tosparse() @ x) * norm for x = rT(deg) (light_curves.py 147-155)
contract(map, rotated_y, x) ==
    LET U == <<NumOfInt(1)>> \o map.u
        p_u == VecMat(U, U0(map.udeg))
        p_y == Pijk_mul(A1(map.ydeg, rotated_y), p_u)
        norm == NumMul(Pi, NumInvMono(NumDot(p_u, rT(map.udeg))))
    IN  NumMul(NumDot(p_y, x), norm)

map_light_curve_flux(map, occ, theta, x, theta_z, rotated_y) ==
    IF map.has_y /\ todense(map.y).status # "ok"
    THEN [status |-> "ValueError", x |-> x, theta_z |-> theta_z, flux |-> FluxZero]
    ELSE IF Len(rotated_y) # (map.ydeg + 1) * (map.ydeg + 1)
    THEN [status |-> "TypeError", x |-> x, theta_z |-> theta_z, flux |-> FluxZero]
    ELSE IF x.kind = "rT"
    THEN [status |-> "ok", x |-> x, theta_z |-> theta_z,
          flux |-> FluxNum(contract(map, rotated_y, x.vec))]
    ELSE [status |-> "ok", x |-> x, theta_z |-> theta_z,
          flux |-> FluxOcc(<<map, theta, occ.r, occ.xo, occ.yo>>)]

map_light_curve(map, occ, theta) ==
    map_light_curve_flux(map, occ, theta, select_x(map, occ), select_theta_z(occ),
                         rotate_y(map, theta, select_theta_z(occ)))

(***************************************************************************)
(* Surfaces.  Surface is not in src/: a surface has the fields that        *)
(* light_curves.py reads (y, ydeg, udeg, u, amplitude) and a rotation      *)
(* rate, in quarter turns per unit of time, from which rotational_phase    *)
(* gives theta.  udeg is the number of limb-darkening coefficients u.      *)
(***************************************************************************)
Surface(y, u, amplitude, rate) ==
    [has_y |-> TRUE, y |-> y, ydeg |-> y.ell_max, udeg |-> Len(u), u |-> u,
     amplitude |-> RInt(amplitude), rate |-> rate]

SurfaceNoY(ydeg, amplitude, rate) ==
    [has_y |-> FALSE, y |-> NoYlm, ydeg |-> ydeg, udeg |-> 0, u |-> <<>>,
     amplitude |-> RInt(amplitude), rate |-> rate]

\* the vector of the numbers ints[i] / d
DenseOf(ints, d) == [i \in 1..Len(ints) |-> NumMono(RNorm(ints[i], d), 1, 0)]

UniformMap == Surface(from_dense(DenseOf(<<1>>, 1)).y, <<>>, 1, 0)

DipoleMap == Surface(from_dense(DenseOf(<<1, 2, 3, -1>>, 1)).y, <<>>, 2, 1)

\* the surface of test_map_light_curves_none_occultor (light_curve_test.py
\* 239-242): seven coefficients, so degree 2, and u = (0.1, 0.1)
TestMap ==
    Surface(from_dense(DenseOf(<<200, 1, 10, 18, 0, 20, 6>>, 200)).y,
            DenseOf(<<1, 1>>, 10), 1, 1)

\* the angle of k quarter turns
QuarterTurn(k) ==
    Angle(NumOfInt(IF k % 4 = 0 THEN 1 ELSE IF k % 4 = 2 THEN -1 ELSE 0),
          NumOfInt(IF k % 4 = 1 THEN 1 ELSE IF k % 4 = 3 THEN -1 ELSE 0))

rotational_phase(map, time) == QuarterTurn(map.rate * time)

\* the quarter turns and the angle of cosine 3/5 and sine 4/5
Theta ==
    {QuarterTurn(k) : k \in 0..3} \cup
    {Angle(NumMono(<<3, 5>>, 1, 0), NumMono(<<4, 5>>, 1, 0))}

Maps ==
    {UniformMap, DipoleMap, TestMap,
     Surface(from_dense(DenseOf(<<2>>, 1)).y, DenseOf(<<1>>, 2), 1, 0),
     Surface(from_dense(DenseOf(<<1, 0, 1, 0>>, 1)).y, <<>>, 1, 1),
     Surface(from_dense(DenseOf(<<1, 1, 0, 0>>, 1)).y, DenseOf(<<2, 1>>, 5), 3, 1),
     Surface(from_dense(DenseOf(<<1, 0, 0, 0, 1, 0, 0, -1, 2>>, 1)).y, <<>>, 1, 1),
     Surface(Ylm_init([k \in {<<0, 1>>} |-> NumOfInt(1)]).y, <<>>, 1, 0),
     SurfaceNoY(0, 1, 0), SurfaceNoY(1, 1, 0)}

Radii == {<<0, 1>>, <<1, 2>>, <<1, 1>>, <<4, 1>>}

\* the coordinates as floats, -0.0 among them
Coords == {RInt(c) : c \in {-3, 0, 1, 2, 4}} \cup {NegZero}

Heights == {-1, 0, 2}

Occultors ==
    {NoOccultor} \cup
    {[given |-> TRUE, r |-> r, xo |-> xo, yo |-> yo, zo |-> RInt(zo)] :
        r \in Radii, xo \in Coords, yo \in Coords, zo \in Heights}

NoResult == [status |-> "none", x |-> [kind |-> "none", vec |-> <<>>],
             theta_z |-> AngleZero, flux |-> FluxZero]

NoMlc == [map |-> UniformMap, occ |-> NoOccultor, theta |-> AngleZero, out |-> NoResult]

(***************************************************************************)
(* A system has a central body (its radius, and its surface map when       *)
(* mapped is TRUE) and orbiting bodies (radius and optional surface map).  *)
(* relative_position is the orbit collaborator: at every time sample it    *)
(* gives one position per orbiting body.                                   *)
(***************************************************************************)
CentralRadii == {1, 2}

Unmapped == [mapped |-> FALSE, map |-> UniformMap]

Mapped(map) == [mapped |-> TRUE, map |-> map]

Body(radius, surface) == [radius |-> radius, surface |-> surface]

BodyKinds == {Body(1, Unmapped), Body(1, Mapped(DipoleMap))}

CentralKinds == {Unmapped, Mapped(UniformMap), Mapped(DipoleMap)}

RECURSIVE SeqsOf(_, _)
SeqsOf(S, n) ==
    IF n = 0 THEN {<<>>}
    ELSE {Append(s, e) : s \in SeqsOf(S, n - 1), e \in S}

Systems ==
    {[central_radius |-> cr, central_surface_map |-> c, bodies |-> b] :
        cr \in CentralRadii, c \in CentralKinds, b \in UNION {SeqsOf(BodyKinds, n) : n \in 1..MaxBodies}}

\* in front of the disk, behind it, off the disk, on the limb
Positions == {<<0, 0, 3>>, <<0, 0, -3>>, <<6, 8, 1>>, <<2, 0, 2>>}

NoSystem == [central_radius |-> 1, central_surface_map |-> Unmapped,
             bodies |-> <<>>]

RECURSIVE FluxSum(_, _)
FluxSum(fs, i) == IF i > Len(fs) THEN FluxZero ELSE FluxAdd(fs[i], FluxSum(fs, i + 1))

\* the first status of a sequence of results that is not "ok", else "ok"
RECURSIVE FirstError(_, _)
FirstError(rs, i) ==
    IF i > Len(rs) THEN "ok"
    ELSE IF rs[i].status # "ok" THEN rs[i].status
    ELSE FirstError(rs, i + 1)

(***************************************************************************)
(* light_curve_impl (light_curves.py 42-80) for one time sample.           *)
(***************************************************************************)
\* central_bodies_lc: map_light_curve of the central map, once per orbiting
\* body as its occultor, radius and position divided by the central radius
\* (light_curves.py 23, 54-61)
central_bodies_lc(system, pos, theta) ==
    Explicit([i \in 1..Len(pos) |->
                 map_light_curve(system.central_surface_map.map,
                                 [given |-> TRUE,
                                  r |-> RNorm(system.bodies[i].radius, system.central_radius),
                                  xo |-> RNorm(pos[i][1], system.central_radius),
                                  yo |-> RNorm(pos[i][2], system.central_radius),
                                  zo |-> RNorm(pos[i][3], system.central_radius)],
                                 theta)])

\* compute_body_light_curve (light_curves.py 25-38, 73-75): 0.0 for a body
\* without a map, else the body's flux with the central body as occultor
compute_body_light_curve(system, pos, time) ==
    Explicit([i \in 1..Len(system.bodies) |->
                 LET body == system.bodies[i]
                 IN  IF ~body.surface.mapped
                     THEN [status |-> "ok", flux |-> FluxZero]
                     ELSE map_light_curve(body.surface.map,
                                          [given |-> TRUE,
                                           r |-> RNorm(system.central_radius, body.radius),
                                           xo |-> FloatDiv(FloatNeg(RInt(pos[i][1])), RInt(body.radius)),
                                           yo |-> FloatDiv(FloatNeg(RInt(pos[i][2])), RInt(body.radius)),
                                           zo |-> FloatDiv(FloatNeg(RInt(pos[i][3])), RInt(body.radius))],
                                          rotational_phase(body.surface.map, time))])

\* the factor (n - 1) of central_phase_curve (light_curves.py 70)
phase_count(n) == n - 1

\* light_curves.py 53-80, given the results of the calls of map_light_curve
assemble(central, n, central_phase_curve, lcs, body_light_curves) ==
    IF central.mapped /\ central_phase_curve.status # "ok"
    THEN [status |-> central_phase_curve.status, out |-> <<>>]
    ELSE IF central.mapped /\ FirstError(lcs, 1) # "ok"
    THEN [status |-> FirstError(lcs, 1), out |-> <<>>]
    ELSE IF FirstError(body_light_curves, 1) # "ok"
    THEN [status |-> FirstError(body_light_curves, 1), out |-> <<>>]
    ELSE IF ~central.mapped
    THEN [status |-> "UnboundLocalError", out |-> <<>>]
    ELSE [status |-> "ok",
          out |-> (IF n > 1
                   THEN <<FluxSub(FluxSum([i \in 1..Len(lcs) |->
                                              FluxScale(lcs[i].flux, central.map.amplitude)], 1),
                                  FluxScale(central_phase_curve.flux, RInt(phase_count(n))))>>
                   ELSE [i \in 1..Len(lcs) |->
                            FluxScale(lcs[i].flux, central.map.amplitude)])
                  \o [i \in 1..Len(body_light_curves) |-> body_light_curves[i].flux]]

light_curve_impl(system, pos, time) ==
    assemble(system.central_surface_map, Len(pos),
             map_light_curve(system.central_surface_map.map, NoOccultor,
                             rotational_phase(system.central_surface_map.map, time)),
             central_bodies_lc(system, pos,
                               rotational_phase(system.central_surface_map.map, time)),
             compute_body_light_curve(system, pos, time))

IdleFlux == mlc = NoMlc

IdleLC ==
    /\ sys = NoSystem
    /\ step = 0
    /\ row = [pos |-> <<>>, time |-> 0, status |-> "none", out |-> <<>>]

(***************************************************************************)
(* rT (light_curves.py 158-195) statement by statement.  rt is a Python    *)
(* list: rt[i] = v raises IndexError unless -len <= i < len, and a         *)
(* negative i counts from the end.  The float division by mu - 2.0 raises  *)
(* ZeroDivisionError when mu = 2.  The entries and factors are kept as     *)
(* rational multiples of pi, as in rT above.                               *)
(***************************************************************************)
\* both loops over m starting at 0
rT_m_start_zero(first) == 0

\* range(0, ell + 1, 4) in the first loop over ell, range(2, ell + 1, 4) in
\* the second (light_curves.py 165, 183)
rT_m_start(first) == IF first THEN 0 ELSE 2

IndexInList(i, n) == -n <= i /\ i < n

NoRT == [pc |-> "idle", status |-> "none", lmax |-> 0, first |-> TRUE, ell |-> 0, m |-> 0,
         amp0 |-> ROne, amp |-> ROne, lfac1 |-> ROne, lfac2 |-> ROne,
         rt |-> <<>>, wrote |-> <<>>, mu |-> <<>>]

IdleRT == rtv = NoRT

(***************************************************************************)
(* compute_rotation_matrices and generate_rotate_dls (s2fft_rotation.py).  *)
(* A Wigner-d plane is kept as the term that names how it was computed:    *)
(* the sequence of the degrees of the compute_full steps applied, in       *)
(* order, to the plane of zeros of line 137; every branch of compute_full  *)
(* (33-35, 36-55, 56-120) builds its result from the plane it is given.    *)
(* The Euler angle beta is "finite", "nan" (the axis divided by its norm   *)
(* 0, line 179) or "tracer": compute_rotation_matrices and                 *)
(* generate_rotate_dls are jit-compiled with x, y, z, theta and beta as    *)
(* traced arguments (144, 123), so that beta is an abstract tracer unless  *)
(* jit is disabled (jax.disable_jit), in which case the functions run      *)
(* eagerly on concrete values.  compute_full declares beta as a static     *)
(* argument (line 8): a static argument must be hashable, a tracer is not, *)
(* and the call raises ValueError before the body runs.                    *)
(***************************************************************************)
ZerosPlane == <<>>

\* dl.at[el].add(dl_iter) on planes (s2fft_rotation.py 140)
PlaneAdd(a, b) ==
    IF a = ZerosPlane THEN b
    ELSE IF b = ZerosPlane THEN a
    ELSE <<"sum", a, b>>

\* jit's test on the static arguments of a call
Hashable(beta) == beta # "tracer"

\* the call compute_full(dl, beta, L, el) (s2fft_rotation.py 8-120)
compute_full(dl, beta, L, el) ==
    IF Hashable(beta)
    THEN [status |-> "ok", dl |-> Append(dl, el)]
    ELSE [status |-> "ValueError", dl |-> dl]

\* beta of euler(x, y, z, theta) (s2fft_rotation.py 177-183)
euler(x, y, z, theta, jit) ==
    IF jit THEN "tracer"
    ELSE IF x * x + y * y + z * z = 0 THEN "nan"
    ELSE "finite"

\* the band-limit of generate_rotate_dls(deg + 1, beta) (s2fft_rotation.py 184)
BandLimit(deg) == deg + 1

\* shapes (n, n) and (L, k, k) broadcast together (s2fft_rotation.py 187)
Broadcasts(n, k) == n = k \/ n = 1 \/ k = 1

\* Rs (s2fft_rotation.py 197-200): block i has 2 i + 1 rows and columns
RotationBlocks(deg, beta) ==
    [j \in 1..(deg + 1) |-> [size |-> 2 * (j - 1) + 1, nan |-> beta = "nan"]]

NoRot == [pc |-> "idle", status |-> "none", jit |-> TRUE, deg |-> 0, axis |-> <<0, 0, 0>>,
          theta |-> 0, beta |-> "finite", L |-> 0, el |-> 0, dl_iter |-> ZerosPlane,
          dl |-> <<>>, calls |-> <<>>, Rs |-> <<>>]

IdleRot == rot = NoRot

(***************************************************************************)
(* SpecIndex.  The index pass of Ylm.tosparse (ylm.py 56) over the keys of *)
(* a full expansion, one key per step, and direct calls of Ylm.index with  *)
(* arbitrary arguments.                                                    *)
(***************************************************************************)
NoCall == [ell |-> 0, m |-> 0, status |-> "none", value |-> 0]

InitIndex ==
    /\ band \in 0..MaxBand
    /\ idx = <<>>
    /\ call = NoCall
    /\ IdleYlm
    /\ IdleFlux
    /\ IdleLC
    /\ IdleRT
    /\ IdleRot

\* one iteration of the list comprehension of tosparse
IndexNext ==
    /\ Len(idx) < Len(KeysUpTo(band))
    /\ LET key == KeysUpTo(band)[Len(idx) + 1]
           r == index(key[1], key[2])
       IN  /\ r.status = "ok"
           /\ idx' = Append(idx, r.value)
    /\ UNCHANGED <<band, call>>
    /\ UNCHANGED <<ylmVars, fluxVars, lcVars, rtVars, rotVars>>

\* a direct call index(ell, m)
IndexCall(ell, m) ==
    /\ call' = [ell |-> ell, m |-> m,
                status |-> index(ell, m).status, value |-> index(ell, m).value]
    /\ UNCHANGED <<band, idx>>
    /\ UNCHANGED <<ylmVars, fluxVars, lcVars, rtVars, rotVars>>

NextIndex ==
    \/ IndexNext
    \/ \E ell \in -1..(band + 1) : \E m \in -(band + 2)..(band + 2) : IndexCall(ell, m)

SpecIndex == InitIndex /\ [][NextIndex]_vars

(***************************************************************************)
(* SpecYlm.  One Ylm instance is created by the constructor or by         *)
(* from_dense and then operated on; the operand of a product is created    *)
(* on the spot from the same inputs.  An operation that raises ends the    *)
(* computation: nothing more is done until an instance is created again.   *)
(* A run applies at most MaxOps scalings or products to the instance it    *)
(* created.                                                                *)
(***************************************************************************)
Coefs == {1, 2}

Scalars == {-1, 3}

\* keys offered to the constructor: the constructor takes any pair, so the
\* universe holds the keys of degree <= MaxEll and, per degree, the two
\* nearest pairs with |m| > ell
KeyUniverse == {k \in (0..MaxEll) \X (-(MaxEll + 1)..(MaxEll + 1)) : Abs(k[2]) <= k[1] + 1}

KeySets == {K \in SUBSET KeyUniverse : Cardinality(K) <= MaxKeys}

MappingOf(K, c) == [k \in K |-> NumOfInt(c)]

DenseInputs ==
    {[i \in 1..n |-> NumOfInt(a + s * i)] :
        n \in 0..((MaxEll + 1) * (MaxEll + 1)), a \in {0, 1}, s \in {0, 1}}

\* the instances that can be created, as operands of a product
Operands ==
    {Ylm_init(MappingOf(K, c)).y : K \in KeySets \ {{}}, c \in Coefs}
        \cup {from_dense(v).y : v \in DenseInputs \ {<<>>}}

InitYlm ==
    /\ ylm = Ylm_init(MappingOf({<<0, 0>>}, 1)).y
    /\ nops = 0
    /\ origin = <<>>
    /\ last = NoOp
    /\ band = 0
    /\ idx = <<>>
    /\ call = NoCall
    /\ IdleFlux
    /\ IdleLC
    /\ IdleRT
    /\ IdleRot

\* Ylm(data)
New(K, c) ==
    LET r == Ylm_init(MappingOf(K, c))
    IN  /\ nops = 0
        /\ ylm' = IF r.status = "ok" THEN r.y ELSE ylm
        /\ nops' = IF r.status = "ok" THEN 0 ELSE nops
        /\ origin' = IF r.status = "ok" THEN <<>> ELSE origin
        /\ last' = [op |-> "new", f |-> NoYlm, g |-> NoYlm,
                    status |-> r.status, out |-> <<>>]
        /\ UNCHANGED <<idxVars, fluxVars, lcVars, rtVars, rotVars>>

\* Ylm.from_dense(v)
FromDense(v) ==
    LET r == from_dense(v)
    IN  /\ nops = 0
        /\ ylm' = IF r.status = "ok" THEN r.y ELSE ylm
        /\ nops' = IF r.status = "ok" THEN 0 ELSE nops
        /\ origin' = IF r.status = "ok" THEN v ELSE origin
        /\ last' = [op |-> "from_dense", f |-> NoYlm, g |-> NoYlm,
                    status |-> r.status, out |-> v]
        /\ UNCHANGED <<idxVars, fluxVars, lcVars, rtVars, rotVars>>

\* ylm.todense()
ToDense ==
    LET r == todense(ylm)
    IN  /\ last.status = "ok"
        /\ last' = [op |-> "todense", f |-> ylm, g |-> NoYlm,
                    status |-> r.status, out |-> r.dense]
        /\ UNCHANGED <<ylm, nops, origin>>
        /\ UNCHANGED <<idxVars, fluxVars, lcVars, rtVars, rotVars>>

\* ylm * c for a scalar c (Ylm.__mul__, ylm.py 75)
Scale(c) ==
    /\ last.status = "ok"
    /\ nops < MaxOps
    /\ ylm' = scale(ylm, c)
    /\ nops' = nops + 1
    /\ origin' = <<>>
    /\ last' = [op |-> "scale", f |-> ylm, g |-> NoYlm, status |-> "ok", out |-> <<>>]
    /\ UNCHANGED <<idxVars, fluxVars, lcVars, rtVars, rotVars>>

\* c * ylm for a scalar c (Ylm.__rmul__, ylm.py 77-79)
RScale(c) ==
    /\ last.status = "ok"
    /\ nops < MaxOps
    /\ ylm' = scale(ylm, c)
    /\ nops' = nops + 1
    /\ origin' = <<>>
    /\ last' = [op |-> "rscale", f |-> ylm, g |-> NoYlm, status |-> "ok", out |-> <<>>]
    /\ UNCHANGED <<idxVars, fluxVars, lcVars, rtVars, rotVars>>

\* f * g for two instances (Ylm.__mul__, ylm.py 72-73)
Product(f, g) ==
    LET r == mul(f, g)
    IN  /\ last.status = "ok"
        /\ nops < MaxOps
        /\ ylm' = IF r.status = "ok" THEN r.y ELSE ylm
        /\ nops' = IF r.status = "ok" THEN nops + 1 ELSE nops
        /\ origin' = IF r.status = "ok" THEN <<>> ELSE origin
        /\ last' = [op |-> "mul", f |-> f, g |-> g, status |-> r.status, out |-> <<>>]
        /\ UNCHANGED <<idxVars, fluxVars, lcVars, rtVars, rotVars>>

\* ylm * g
ProductRight == \E g \in Operands : Product(ylm, g)

\* g * ylm
ProductLeft == \E g \in Operands : Product(g, ylm)

NextYlm ==
    \/ \E v \in DenseInputs : FromDense(v)
    \/ ToDense
    \/ \E K \in KeySets : \E c \in Coefs : New(K, c)
    \/ \E c \in Scalars : Scale(c)
    \/ \E c \in Scalars : RScale(c)
    \/ ProductRight
    \/ ProductLeft

SpecYlm == InitYlm /\ [][NextYlm]_vars

(***************************************************************************)
(* SpecFlux.  map_light_curve is called with a map, an occultor (or none)  *)
(* and a rotation phase; mlc keeps the call and what it returned.  The     *)
(* function is pure, so a run is one call.                                 *)
(***************************************************************************)
InitFlux ==
    /\ mlc = NoMlc
    /\ band = 0
    /\ idx = <<>>
    /\ call = NoCall
    /\ IdleYlm
    /\ IdleLC
    /\ IdleRT
    /\ IdleRot

MapLightCurve(map, occ, theta) ==
    /\ mlc.out.status = "none"
    /\ mlc' = [map |-> map, occ |-> occ, theta |-> theta,
               out |-> map_light_curve(map, occ, theta)]
    /\ UNCHANGED <<idxVars, ylmVars, lcVars, rtVars, rotVars>>

NextFlux == \E map \in Maps : \E occ \in Occultors : \E theta \in Theta :
                MapLightCurve(map, occ, theta)

SpecFlux == InitFlux /\ [][NextFlux]_vars

(***************************************************************************)
(* SpecLC.  light_curve(system) is evaluated at the time samples 0, 1, ... *)
(* in turn (vectorize, light_curves.py 41); the positions of a sample come *)
(* from the orbit.  A sample that raises ends the evaluation.              *)
(***************************************************************************)
InitLC ==
    /\ sys \in Systems
    /\ step = 0
    /\ row = [pos |-> <<>>, time |-> 0, status |-> "none", out |-> <<>>]
    /\ band = 0
    /\ idx = <<>>
    /\ call = NoCall
    /\ IdleYlm
    /\ IdleFlux
    /\ IdleRT
    /\ IdleRot

Sample(pos) ==
    LET res == light_curve_impl(sys, pos, step)
    IN  /\ step < MaxTimes
        /\ row.status \in {"none", "ok"}
        /\ row' = [pos |-> pos, time |-> step, status |-> res.status, out |-> res.out]
        /\ step' = step + 1
        /\ UNCHANGED <<sys, idxVars, ylmVars, fluxVars, rtVars, rotVars>>

NextLC == \E pos \in SeqsOf(Positions, Len(sys.bodies)) : Sample(pos)

SpecLC == InitLC /\ [][NextLC]_vars

(***************************************************************************)
(* SpecRT.  One call of rT(lmax), a step per pass of a loop head or loop   *)
(* body.  pc is "ell" at the head of a loop over ell, "m" at the head of   *)
(* the loop over m, "done" after the return or an exception.  wrote holds  *)
(* the indices assigned by the last pass of the loop over m and mu the     *)
(* value of mu at its amplitude update.                                    *)
(***************************************************************************)
InitRT ==
    /\ rtv = NoRT
    /\ band = 0
    /\ idx = <<>>
    /\ call = NoCall
    /\ IdleYlm
    /\ IdleFlux
    /\ IdleLC
    /\ IdleRot

\* light_curves.py 159-162
RTCall(lmax) ==
    /\ rtv.pc = "idle"
    /\ rtv' = [NoRT EXCEPT !.pc = "ell", !.status = "run", !.lmax = lmax,
                           !.first = TRUE, !.ell = 0,
                           !.amp0 = ROne, !.lfac1 = ROne, !.lfac2 = <<2, 3>>,
                           !.rt = [i \in 1..((lmax + 1) * (lmax + 1)) |-> RZero]]
    /\ UNCHANGED <<idxVars, ylmVars, fluxVars, lcVars, rotVars>>

\* one more value of ell: amp = amp0 (light_curves.py 163-165, 181-183)
RTEnterEll ==
    /\ rtv.pc = "ell"
    /\ rtv.ell <= rtv.lmax
    /\ rtv' = [rtv EXCEPT !.pc = "m", !.amp = rtv.amp0, !.m = rT_m_start(rtv.first)]
    /\ UNCHANGED <<idxVars, ylmVars, fluxVars, lcVars, rotVars>>

\* the body of the loop over m (light_curves.py 166-173, 184-191)
RTWrite ==
    /\ rtv.pc = "m"
    /\ rtv.m <= rtv.ell
    /\ LET is == rT_indices(rtv.lmax, rtv.ell, rtv.m)
           vs == rT_values(rtv.amp, rtv.lfac1, rtv.lfac2)
           mu == rtv.ell - rtv.m
           nu == rtv.ell + rtv.m
       IN  rtv' = IF \E k \in 1..Len(is) : ~IndexInList(is[k], Len(rtv.rt))
                  THEN [rtv EXCEPT !.pc = "done", !.status = "IndexError", !.wrote = is]
                  ELSE IF mu - 2 = 0
                  THEN [rtv EXCEPT !.pc = "done", !.status = "ZeroDivisionError",
                                   !.rt = ListAssign(rtv.rt, is, vs, 1),
                                   !.wrote = is, !.mu = <<mu>>]
                  ELSE [rtv EXCEPT !.rt = ListAssign(rtv.rt, is, vs, 1),
                                   !.wrote = is, !.mu = <<mu>>,
                                   !.amp = RMul(rtv.amp, RNorm(nu + 2, mu - 2)),
                                   !.m = rtv.m + 4]
    /\ UNCHANGED <<idxVars, ylmVars, fluxVars, lcVars, rotVars>>

\* after the loop over m (light_curves.py 174-176, 192-194)
RTLeaveEll ==
    /\ rtv.pc = "m"
    /\ rtv.m > rtv.ell
    /\ rtv' = [rtv EXCEPT
                  !.pc = "ell",
                  !.lfac1 = RDiv(rtv.lfac1, RNorm((rtv.ell + 4) * (rtv.ell + 6), 4)),
                  !.lfac2 = RDiv(rtv.lfac2, RNorm((rtv.ell + 5) * (rtv.ell + 7), 4)),
                  !.amp0 = RMul(rtv.amp0,
                                IF rtv.first
                                THEN RNorm((rtv.ell + 2) * (rtv.ell + 2), 16)
                                ELSE RNorm(rtv.ell * (rtv.ell + 4), 16)),
                  !.ell = rtv.ell + 4]
    /\ UNCHANGED <<idxVars, ylmVars, fluxVars, lcVars, rotVars>>

\* between the two loops over ell (light_curves.py 178-181)
RTSecondLoop ==
    /\ rtv.pc = "ell"
    /\ rtv.ell > rtv.lmax
    /\ rtv.first
    /\ rtv' = [rtv EXCEPT !.first = FALSE, !.ell = 2,
                          !.amp0 = <<1, 2>>, !.lfac1 = <<1, 2>>, !.lfac2 = <<4, 15>>]
    /\ UNCHANGED <<idxVars, ylmVars, fluxVars, lcVars, rotVars>>

\* return np.array(rt) (light_curves.py 195)
RTReturn ==
    /\ rtv.pc = "ell"
    /\ rtv.ell > rtv.lmax
    /\ ~rtv.first
    /\ rtv' = [rtv EXCEPT !.pc = "done", !.status = "ok"]
    /\ UNCHANGED <<idxVars, ylmVars, fluxVars, lcVars, rotVars>>

NextRT ==
    \/ \E lmax \in 0..MaxLmax : RTCall(lmax)
    \/ RTEnterEll
    \/ RTWrite
    \/ RTLeaveEll
    \/ RTSecondLoop
    \/ RTReturn

SpecRT == InitRT /\ [][NextRT]_vars

(***************************************************************************)
(* SpecRot.  compute_rotation_matrices(deg, x, y, z, theta), one iteration *)
(* of the loop of generate_rotate_dls per step, with jit in effect or      *)
(* disabled.                                                               *)
(***************************************************************************)
AxisComponents == {0, 1}

InitRot ==
    /\ band = 0
    /\ idx = <<>>
    /\ call = NoCall
    /\ IdleYlm
    /\ IdleFlux
    /\ IdleLC
    /\ IdleRT
    /\ IdleRot

\* the call up to the loop of generate_rotate_dls (s2fft_rotation.py 183-184,
\* 136-137)
RotCall(deg, x, y, z, theta, jit) ==
    /\ rot.pc = "idle"
    /\ rot' = [pc |-> "dls", status |-> "run", jit |-> jit, deg |-> deg,
               axis |-> <<x, y, z>>, theta |-> theta,
               beta |-> euler(x, y, z, theta, jit),
               L |-> BandLimit(deg), el |-> 0, dl_iter |-> ZerosPlane,
               dl |-> [e \in 1..BandLimit(deg) |-> ZerosPlane],
               calls |-> <<>>, Rs |-> <<>>]
    /\ UNCHANGED <<idxVars, ylmVars, fluxVars, lcVars, rtVars>>

\* one iteration of for el in range(L) (s2fft_rotation.py 138-140)
RotStep ==
    /\ rot.pc = "dls"
    /\ rot.el < rot.L
    /\ LET r == compute_full(rot.dl_iter, rot.beta, rot.L, rot.el)
       IN  rot' = IF r.status # "ok"
                  THEN [rot EXCEPT !.pc = "done", !.status = r.status]
                  ELSE [rot EXCEPT
                           !.dl_iter = r.dl,
                           !.dl[rot.el + 1] = PlaneAdd(rot.dl[rot.el + 1], r.dl),
                           !.calls = Append(rot.calls,
                                            [el |-> rot.el, input |-> rot.dl_iter,
                                             output |-> r.dl]),
                           !.el = rot.el + 1]
    /\ UNCHANGED <<idxVars, ylmVars, fluxVars, lcVars, rtVars>>

\* after the loop: Dlm, Rs_full and the list Rs (s2fft_rotation.py 141, 185-202)
RotReturn ==
    /\ rot.pc = "dls"
    /\ rot.el >= rot.L
    /\ rot' = IF Broadcasts(2 * rot.deg + 1, 2 * rot.L - 1)
              THEN [rot EXCEPT !.pc = "done", !.status = "ok",
                               !.Rs = RotationBlocks(rot.deg, rot.beta)]
              ELSE [rot EXCEPT !.pc = "done", !.status = "TypeError"]
    /\ UNCHANGED <<idxVars, ylmVars, fluxVars, lcVars, rtVars>>

NextRot ==
    \/ \E deg \in 0..MaxDeg, x \in AxisComponents, y \in AxisComponents,
          z \in AxisComponents, theta \in {0, 1}, jit \in BOOLEAN :
           RotCall(deg, x, y, z, theta, jit)
    \/ RotStep
    \/ RotReturn

SpecRot == InitRot /\ [][NextRot]_vars

(***************************************************************************)
(* C1: for every band-limit L, Ylm.index is injective on the keys (l, m)   *)
(* with 0 <= l <= L, -l <= m <= l, and its image is exactly the interval   *)
(* [0, (L+1)^2): the indices computed so far are pairwise distinct and     *)
(* inside the interval, and once every key is indexed they fill it.        *)
(***************************************************************************)
C1_IndexBijection ==
    /\ \A i, j \in 1..Len(idx) : i # j => idx[i] # idx[j]
    /\ \A i \in 1..Len(idx) : idx[i] \in 0..((band + 1) * (band + 1) - 1)
    /\ Len(idx) = Len(KeysUpTo(band)) =>
           {idx[i] : i \in 1..Len(idx)} = 0..((band + 1) * (band + 1) - 1)

C1_Witness ==
    /\ band = MaxBand
    /\ Len(idx) = (MaxBand + 1) * (MaxBand + 1)

(***************************************************************************)
(* C2: index(l, m) fails with the out-of-range error exactly when          *)
(* |m| > l, and otherwise returns l*(l+1)+m.                               *)
(***************************************************************************)
C2_IndexOutOfRange ==
    call.status # "none" =>
        /\ (call.status = "ValueError") <=> (Abs(call.m) > call.ell)
        /\ call.status = "ok" => call.value = call.ell * (call.ell + 1) + call.m

C2_Witness ==
    /\ call.status = "ValueError"
    /\ call.ell = 1
    /\ call.m = -2

(***************************************************************************)
(* Keys as the data model wants them: ell >= 0 and |m| <= ell.             *)
(***************************************************************************)
ValidKeys(e) == \A k \in DOMAIN e.data : k[1] >= 0 /\ Abs(k[2]) <= k[1]

IsSquare(n) == ISqrt(n) * ISqrt(n) = n

(***************************************************************************)
(* C3: for a vector v of length (L+1)^2, from_dense(v).todense() succeeds, *)
(* has length (L+1)^2 and equals v entry for entry.                        *)
(***************************************************************************)
C3_RoundTrip ==
    (last.op = "todense" /\ Len(origin) > 0 /\ IsSquare(Len(origin))) =>
        /\ last.status = "ok"
        /\ Len(last.out) = Len(origin)
        /\ \A i \in 1..Len(origin) : last.out[i] = origin[i]

C3_Witness ==
    /\ last.op = "todense"
    /\ last.status = "ok"
    /\ Len(origin) = (MaxEll + 1) * (MaxEll + 1)
    /\ \A i, j \in 1..Len(origin) : i # j => origin[i] # origin[j]

(***************************************************************************)
(* The product as the specification states it: the contributions to the    *)
(* key <<ell3, m3>> are the triples of a stored key of f, a stored key of  *)
(* g and a degree ell3 in [max(|m1+m2|, |ell1-ell2|),                      *)
(* min(ell1+ell2, ellmax_f+ellmax_g)] with m1 + m2 = m3.                   *)
(***************************************************************************)
Contributions(f, g) ==
    {c \in (DOMAIN f.data) \X (DOMAIN g.data) \X (0..(f.ell_max + g.ell_max)) :
        /\ c[3] >= Max2(Abs(c[1][2] + c[2][2]), Abs(c[1][1] - c[2][1]))
        /\ c[3] <= Min2(c[1][1] + c[2][1], f.ell_max + g.ell_max)}

TargetKey(c) == <<c[3], c[1][2] + c[2][2]>>

\* (-1)^(l1+l2+l3+m3) sqrt((2l1+1)(2l2+1)(2l3+1) / (4 pi)) coupling(l1,l2,m1,m2)[l3]
\* f[k1] g[k2]
StatedTerm(f, g, c) ==
    LET ell1 == c[1][1]
        ell2 == c[2][1]
        ell3 == c[3]
        m3 == c[1][2] + c[2][2]
    IN  NumScale(
            NumMul(NumMul(NumSqrt((2 * ell1 + 1) * (2 * ell2 + 1) * (2 * ell3 + 1), 1, 1),
                          calculate(ell1, ell2, c[1][2], c[2][2], ell3)),
                   NumMul(f.data[c[1]], g.data[c[2]])),
            RInt(PowMinusOne(ell1 + ell2 + ell3 + m3)))

StatedProduct(f, g) ==
    LET C == Contributions(f, g)
    IN  [k \in {TargetKey(c) : c \in C} |->
            NumSumOver({c \in C : TargetKey(c) = k},
                       [c \in C |-> StatedTerm(f, g, c)])]

(***************************************************************************)
(* C4: for two expansions f and g (instances whose keys are as the data    *)
(* model wants them), f * g stores exactly the keys reached by some        *)
(* contribution, and the coefficient at each key is the sum of the stated  *)
(* term over all the contributions reaching it.                            *)
(***************************************************************************)
C4_ProductSum ==
    (last.op = "mul" /\ ValidKeys(last.f) /\ ValidKeys(last.g)) =>
        /\ last.status = "ok"
        /\ ylm.data = StatedProduct(last.f, last.g)

\* a product in which one key receives two non-zero contributions
C4_Witness ==
    /\ last.op = "mul"
    /\ last.status = "ok"
    /\ ValidKeys(last.f)
    /\ ValidKeys(last.g)
    /\ \E c1, c2 \in Contributions(last.f, last.g) :
           /\ c1 # c2
           /\ TargetKey(c1) = TargetKey(c2)
           /\ StatedTerm(last.f, last.g, c1) # NumZero
           /\ StatedTerm(last.f, last.g, c2) # NumZero

(***************************************************************************)
(* C5: the product is symmetric: f * g and g * f have the same keys and    *)
(* the same coefficient at every key.                                      *)
(***************************************************************************)
C5_ProductSymmetric ==
    (last.op = "mul" /\ last.status = "ok"
        /\ ValidKeys(last.f) /\ ValidKeys(last.g)) =>
        /\ mul(last.g, last.f).status = "ok"
        /\ mul(last.g, last.f).y.data = ylm.data

(***************************************************************************)
(* C6 as stated: every instance has keys with ell >= 0 and |m| <= ell,     *)
(* ell_max the maximum degree of its keys, diagonal true exactly when      *)
(* every key has m = 0, and a product has ell_max <= ell_max(f) +          *)
(* ell_max(g).                                                             *)
(***************************************************************************)
FieldsAgree(e) ==
    /\ e.ell_max = SetMax({k[1] : k \in DOMAIN e.data})
    /\ e.diagonal <=> (\A k \in DOMAIN e.data : k[2] = 0)

C6_Original ==
    /\ ValidKeys(ylm)
    /\ FieldsAgree(ylm)
    /\ (last.op = "mul" /\ last.status = "ok") =>
           ylm.ell_max <= last.f.ell_max + last.g.ell_max

(***************************************************************************)
(* C6 as amended: the constructor keeps whatever keys it is given, so the  *)
(* key condition holds of an instance constructed from a mapping whose     *)
(* keys satisfy it, of every instance made by from_dense, and of every     *)
(* scaling or product of instances that satisfy it; the other three        *)
(* conditions hold of every instance.                                      *)
(***************************************************************************)
C6_YlmInvariant ==
    /\ FieldsAgree(ylm)
    /\ (last.op = "from_dense" /\ last.status = "ok") => ValidKeys(ylm)
    /\ (last.op \in {"scale", "rscale"} /\ ValidKeys(last.f)) => ValidKeys(ylm)
    /\ (last.op = "mul" /\ last.status = "ok") =>
           /\ ylm.ell_max <= last.f.ell_max + last.g.ell_max
           /\ (ValidKeys(last.f) /\ ValidKeys(last.g)) => ValidKeys(ylm)

C6_Witness ==
    /\ last.op = "mul"
    /\ last.status = "ok"
    /\ ValidKeys(last.f)
    /\ ValidKeys(last.g)
    /\ ylm.ell_max = 2 * MaxEll
    /\ ~ylm.diagonal

(***************************************************************************)
(* The selection as the specification states it: the body is unocculted    *)
(* when no occultor is given, or b >= 1 + r, or zo <= 0.                   *)
(***************************************************************************)
StatedUnocculted(occ) ==
    \/ ~occ.given
    \/ LET s == RAdd(ROne, occ.r)
           b2 == RAdd(RMul(occ.xo, occ.xo), RMul(occ.yo, occ.yo))
       IN  s[1] <= 0 \/ s[1] * s[1] * b2[2] <= b2[1] * s[2] * s[2]
    \/ occ.zo[1] <= 0

Called == mlc.out.status # "none"

(***************************************************************************)
(* C7: in map_light_curve x is rT(deg) exactly when no occultor is given,  *)
(* or b >= 1 + r, or zo <= 0, and is sT(b, r) @ A2 in every other case;    *)
(* the boundary inputs b = 1 + r and zo = 0 select rT.                     *)
(***************************************************************************)
C7_BasisSelection ==
    Called =>
        /\ StatedUnocculted(mlc.occ) =>
               (mlc.out.x.kind = "rT" /\ mlc.out.x.vec = rT(map_deg(mlc.map)))
        /\ ~StatedUnocculted(mlc.occ) => mlc.out.x.kind = "sT_A2"

\* a call on the boundary b = 1 + r with the occultor in front
C7_Witness ==
    /\ Called
    /\ mlc.occ.given
    /\ mlc.occ.zo[1] > 0
    /\ b_squared(mlc.occ.xo, mlc.occ.yo) = RMul(RAdd(ROne, mlc.occ.r), RAdd(ROne, mlc.occ.r))
    /\ mlc.out.x.kind = "rT"

C9_UnmappedCentralZero ==
    (row.status # "none" /\ ~sys.central_surface_map.mapped /\ Len(sys.bodies) >= 1) =>
        /\ row.status = "ok"
        /\ row.out[1] = FluxZero

(***************************************************************************)
(* The central column as the specification states it, with the fluxes on   *)
(* one scale: the single-surface flux of map_light_curve (scale 1) or the  *)
(* flux times the amplitude of the central map (scale amplitude).          *)
(***************************************************************************)
OneOccultorFlux(i) ==
    LET c == sys.central_surface_map.map
        cr == sys.central_radius
    IN  map_light_curve(c,
                        [given |-> TRUE,
                         r |-> RNorm(sys.bodies[i].radius, cr),
                         xo |-> RNorm(row.pos[i][1], cr),
                         yo |-> RNorm(row.pos[i][2], cr),
                         zo |-> RNorm(row.pos[i][3], cr)],
                        rotational_phase(c, row.time)).flux

BarePhaseFlux ==
    map_light_curve(sys.central_surface_map.map, NoOccultor,
                    rotational_phase(sys.central_surface_map.map, row.time)).flux

RECURSIVE FluxSumOver(_, _)
FluxSumOver(S, fs) ==
    IF S = {} THEN FluxZero
    ELSE LET i == CHOOSE i \in S : TRUE
         IN  FluxAdd(fs[i], FluxSumOver(S \ {i}, fs))

StatedCentralColumn(factor) ==
    LET n == Len(sys.bodies)
    IN  IF n >= 2
        THEN FluxScale(FluxSub(FluxSumOver(1..n, [i \in 1..n |-> OneOccultorFlux(i)]),
                               FluxScale(BarePhaseFlux, RInt(n - 1))),
                       factor)
        ELSE FluxScale(OneOccultorFlux(1), factor)

(***************************************************************************)
(* C10: for a mapped central body with n orbiting bodies, at every time    *)
(* sample, the central column is the sum over the bodies of the central    *)
(* flux with that body as sole occultor minus (n - 1) times the bare       *)
(* phase flux when n >= 2, and the single one-occultor flux when n = 1;    *)
(* the one-occultor fluxes and the bare phase flux being on the same       *)
(* factor, with or without the amplitude of the central map.               *)
(***************************************************************************)
C10_CentralColumn ==
    (row.status = "ok" /\ sys.central_surface_map.mapped) =>
        \/ row.out[1] = StatedCentralColumn(ROne)
        \/ row.out[1] = StatedCentralColumn(sys.central_surface_map.map.amplitude)

(***************************************************************************)
(* The central column with one orbiting body only: light_curve of the      *)
(* same central body with the first orbiting body alone, at the same time  *)
(* and position.                                                           *)
(***************************************************************************)
NonOcculting(i) ==
    select_x(sys.central_surface_map.map,
             [given |-> TRUE,
              r |-> RNorm(sys.bodies[i].radius, sys.central_radius),
              xo |-> RNorm(row.pos[i][1], sys.central_radius),
              yo |-> RNorm(row.pos[i][2], sys.central_radius),
              zo |-> RNorm(row.pos[i][3], sys.central_radius)]).kind = "rT"

SingleBodyColumn ==
    light_curve_impl([sys EXCEPT !.bodies = <<sys.bodies[1]>>],
                     <<row.pos[1]>>, row.time).out[1]

(***************************************************************************)
(* C11: for a mapped central body with n >= 2 orbiting bodies, at a time   *)
(* sample at which no body occults the central body, the central column    *)
(* is the central column of the same central body with a single            *)
(* non-occulting orbiting body, whatever n and the amplitude.              *)
(***************************************************************************)
C11_BaselineIndependentOfN ==
    (/\ row.status = "ok"
     /\ sys.central_surface_map.mapped
     /\ Len(sys.bodies) >= 2
     /\ \A i \in 1..Len(sys.bodies) : NonOcculting(i)) =>
        row.out[1] = SingleBodyColumn

(***************************************************************************)
(* The flux of the k-th orbiting body as the specification states it: 0    *)
(* without a map, else the body's flux with the central body as occultor.  *)
(***************************************************************************)
BodyFlux(k) ==
    LET body == sys.bodies[k]
    IN  IF ~body.surface.mapped THEN FluxZero
        ELSE map_light_curve(body.surface.map,
                             [given |-> TRUE,
                              r |-> RNorm(sys.central_radius, body.radius),
                              xo |-> FloatDiv(FloatNeg(RInt(row.pos[k][1])), RInt(body.radius)),
                              yo |-> FloatDiv(FloatNeg(RInt(row.pos[k][2])), RInt(body.radius)),
                              zo |-> FloatDiv(FloatNeg(RInt(row.pos[k][3])), RInt(body.radius))],
                             rotational_phase(body.surface.map, row.time)).flux

(***************************************************************************)
(* C12: for every system (central body mapped or not, n >= 1 orbiting      *)
(* bodies each mapped or not) the result for one time sample has exactly   *)
(* 1 + n entries: the central body's flux, then the flux of the k-th       *)
(* orbiting body at entry k.                                               *)
(***************************************************************************)
C12_RowShape ==
    row.status # "none" =>
        /\ row.status = "ok"
        /\ Len(row.out) = 1 + Len(sys.bodies)
        /\ \A k \in 1..Len(sys.bodies) : row.out[k + 1] = BodyFlux(k)

(***************************************************************************)
(* C16: for a surface without a map, of any ydeg, map_light_curve takes    *)
(* the rotated coefficients as the zero vector of length (ydeg + 1)^2,     *)
(* the dimension A1(ydeg) acts on, and the evaluation completes without    *)
(* error.                                                                  *)
(***************************************************************************)
C16_NoMapZeroVector ==
    (Called /\ ~mlc.map.has_y) =>
        /\ rotate_y(mlc.map, mlc.theta, mlc.out.theta_z)
               = [i \in 1..((mlc.map.ydeg + 1) * (mlc.map.ydeg + 1)) |-> NumZero]
        /\ mlc.out.status = "ok"

(***************************************************************************)
(* C17: for every lmax >= 0, rT(lmax) runs without error and its vector    *)
(* has length (lmax + 1)^2; every index it assigns lies in                 *)
(* 0 .. (lmax + 1)^2 - 1, and at every amplitude update, in both loops     *)
(* over the degree, mu = ell - m is a multiple of 4, so that mu - 2 is     *)
(* not zero.                                                               *)
(***************************************************************************)
C17_rTWellDefined ==
    rtv.pc # "idle" =>
        /\ rtv.status \in {"run", "ok"}
        /\ Len(rtv.rt) = (rtv.lmax + 1) * (rtv.lmax + 1)
        /\ \A k \in 1..Len(rtv.wrote) :
               0 <= rtv.wrote[k] /\ rtv.wrote[k] < (rtv.lmax + 1) * (rtv.lmax + 1)
        /\ \A k \in 1..Len(rtv.mu) : rtv.mu[k] % 4 = 0 /\ rtv.mu[k] - 2 # 0

\* the second loop over the degree, at ell = 6 < lmax, after the pass m = 2:
\* four entries assigned, mu = 4
C17_Witness ==
    /\ rtv.pc = "m"
    /\ ~rtv.first
    /\ rtv.lmax = 7
    /\ rtv.ell = 6
    /\ rtv.m = 6
    /\ rtv.mu = <<4>>
    /\ rtv.wrote = <<44, 40, 58, 54>>
    /\ rtv.rt[45] # RZero

(***************************************************************************)
(* C13: compute_rotation_matrices called with the zero axis                *)
(* (x = y = z = 0) fails with a DegenerateAxis error and returns no        *)
(* rotation matrices, for every degree and angle.                          *)
(***************************************************************************)
C13_ZeroAxisFails ==
    (rot.pc = "done" /\ rot.axis = <<0, 0, 0>>) =>
        /\ rot.status = "DegenerateAxis"
        /\ rot.Rs = <<>>

(***************************************************************************)
(* C14: in generate_rotate_dls, compute_full is executed exactly once for  *)
(* each degree 0 .. L - 1, in strictly increasing order starting at 0; the *)
(* step for degree el >= 1 receives as its input plane the output of the   *)
(* step for degree el - 1 (the step for degree 0 the plane of zeros), and  *)
(* the plane stored for degree el is the output of that step.              *)
(***************************************************************************)
C14_RecursionOrder ==
    rot.pc = "done" =>
        /\ Len(rot.calls) = rot.L
        /\ \A k \in 1..Len(rot.calls) :
               /\ rot.calls[k].el = k - 1
               /\ rot.calls[k].input =
                      (IF k = 1 THEN ZerosPlane ELSE rot.calls[k - 1].output)
               /\ rot.dl[k] = rot.calls[k].output

(***************************************************************************)
(* C15: a call compute_rotation_matrices(maxDegree, ...) generates the     *)
(* Wigner-d plane of every degree 0 .. maxDegree + 1: when the call ends,  *)
(* the recursion has produced maxDegree + 2 planes, one per degree.        *)
(***************************************************************************)
C15_PlanesToMaxDegreePlusOne ==
    rot.pc = "done" =>
        /\ Len(rot.calls) = rot.deg + 2
        /\ {rot.calls[k].el : k \in 1..Len(rot.calls)} = 0..(rot.deg + 1)

====
